---- MODULE Spec2Model ----
(***************************************************************************)
(* Event-driven backtest of the intraday OLS mean-reversion pairs strategy *)
(* (src/trading_mean_reverting_equity_pairs.py).                           *)
(*                                                                         *)
(* Numbers.  A threshold or a strength is a rational [n, d] with d > 0.    *)
(* A z-score is a pair [D, V] that stands for D / sqrt(V): for a window of *)
(* N integer closes the z-score of the last spread point is exactly of     *)
(* this form (see ZScoreLast).  V = 0 is numpy's 0.0/0.0 = nan, for which  *)
(* every comparison is False.                                              *)
(***************************************************************************)
EXTENDS Integers, Sequences, FiniteSets, TLC

VARIABLES
  latest_symbol_data,  \* feed: symbol -> closes seen so far
  bar_index,           \* feed: number of update_bars calls made
  continue_backtest,   \* feed: more data available
  events,              \* the shared FIFO event queue
  ols_window, zscore_low, zscore_high,   \* strategy parameters
  strat_index,         \* simulate_trading: number of the parameter set in use (from 1)
  hedge_ratio,         \* strategy: last OLS slope (NoHedgeRatio until first fit)
  long_market, short_market,             \* strategy position flags
  zscore_last,         \* z-score of the last calculate_xy_signals call
  ret,                 \* <<y_signal, x_signal>> returned by that call
  signals, orders, fills,                \* Backtest counters
  i,                   \* Backtest._run_backtest loop counter
  pc,                  \* position of _run_backtest: "feed", "drain", "done"
  current_positions,   \* portfolio: symbol -> signed quantity held
  equity_curve,        \* portfolio: one sample per update_timeindex call
  dispatched,          \* history: events dequeued and dispatched, in order
  dropped,             \* history: events dequeued and not dispatched
  put_log,             \* history: every event put on the queue, in order
  call_log             \* history: the collaborator calls the driver made

vars == <<latest_symbol_data, bar_index, continue_backtest, events,
          ols_window, zscore_low, zscore_high, strat_index, hedge_ratio,
          long_market, short_market, zscore_last, ret,
          signals, orders, fills, i, pc,
          current_positions, equity_curve,
          dispatched, dropped, put_log, call_log>>

feedVars     == <<latest_symbol_data, bar_index, continue_backtest>>
paramVars    == <<ols_window, zscore_low, zscore_high, strat_index>>
strategyVars == <<hedge_ratio, long_market, short_market, zscore_last, ret>>
counterVars  == <<signals, orders, fills>>
portfolioVars == <<current_positions, equity_curve>>
historyVars  == <<dispatched, dropped, call_log>>

-----------------------------------------------------------------------------
(* Bounds of the model *)

MaxBars == 3        \* bars in the replayed CSV feed
MaxClose == 2       \* closes are drawn from 1..MaxClose
MaxForeign == 1     \* foreign events a collaborator may put on the queue
MaxZHalves == 7     \* directly supplied z-scores range over -MaxZHalves/2 .. MaxZHalves/2
MaxTicks == 4       \* ticks of a z-score sequence given to the strategy
MaxRuns == 2        \* parameter sets in strat_params_list

Closes == 1..MaxClose

-----------------------------------------------------------------------------
(* Rationals and z-scores *)

Rat(n, d) == [n |-> n, d |-> d]
One == Rat(1, 1)
NoHedgeRatio == Rat(0, 0)

Abs(v) == IF v < 0 THEN -v ELSE v
\* signed square: monotone, so a <= b*s  <=>  SqS(a) <= SqS(b)*s^2 for s > 0
SqS(v) == v * Abs(v)

RECURSIVE GCD(_, _)
GCD(a, b) == IF b = 0 THEN a ELSE GCD(b, a % b)

Reduce(n, d) == LET g == GCD(Abs(n), d) IN Rat(n \div g, d \div g)

RatAbs(r) == Rat(Abs(r.n), r.d)
RatNeg(r) == Rat(-r.n, r.d)
RatLt(a, b) == a.n * b.d < b.n * a.d

Z(D, V) == [D |-> D, V |-> V]
NaN == Z(0, 0)

\* z <= t, z >= t, abs(z) <= t for a float z = D/sqrt(V) and a rational t
ZLe(z, t) == z.V > 0 /\ SqS(z.D * t.d) <= SqS(t.n) * z.V
ZGe(z, t) == z.V > 0 /\ SqS(z.D * t.d) >= SqS(t.n) * z.V
ZAbsLe(z, t) == z.V > 0 /\ (z.D * t.d) * (z.D * t.d) <= SqS(t.n) * z.V
ZEq(z, t) == ZLe(z, t) /\ ZGe(z, t)

-----------------------------------------------------------------------------
(* Events *)

Pair == <<"AAPL", "MSFT">>
p0 == Pair[1]
p1 == Pair[2]

None == [type |-> "NONE"]
MarketEvent == [type |-> "MARKET"]
SignalEvent(strategy_id, symbol, signal_type, strength) ==
  [type |-> "SIGNAL", strategy_id |-> strategy_id, symbol |-> symbol,
   signal_type |-> signal_type, strength |-> strength]
OrderEvent(symbol, order_type, quantity, direction) ==
  [type |-> "ORDER", symbol |-> symbol, order_type |-> order_type,
   quantity |-> quantity, direction |-> direction]
FillEvent(symbol, quantity, direction) ==
  [type |-> "FILL", symbol |-> symbol, quantity |-> quantity,
   direction |-> direction]

-----------------------------------------------------------------------------
(* Data feed: the DataHandler collaborator (hft_data, outside src/) *)

LastN(s, N) == IF Len(s) <= N THEN s ELSE SubSeq(s, Len(s) - N + 1, Len(s))

\* bars.get_latest_bars_values(symbol, "close", N): the last N closes, fewer
\* during warm-up, None while the symbol has no bar at all
get_latest_bars_values(data, symbol, N) ==
  IF Len(data[symbol]) = 0 THEN None
  ELSE [type |-> "VALUES", values |-> LastN(data[symbol], N)]

\* data_handler.update_bars(): each leg gains its next close (ny, nx; 0 = the
\* leg has no bar at this timestamp), one MarketEvent is put on the queue and
\* the feed reports whether more data remains
update_bars(ny, nx, more) ==
  /\ latest_symbol_data' =
       [latest_symbol_data EXCEPT
          ![p0] = IF ny = 0 THEN @ ELSE Append(@, ny),
          ![p1] = IF nx = 0 THEN @ ELSE Append(@, nx)]
  /\ bar_index' = bar_index + 1
  /\ continue_backtest' = (more /\ bar_index + 1 < MaxBars)
  /\ events' = Append(events, MarketEvent)

-----------------------------------------------------------------------------
(* IntradayOLSMRStrategy *)

StrategyId == 1

RECURSIVE SumTo(_, _)
SumTo(f, n) == IF n = 0 THEN 0 ELSE f[n] + SumTo(f, n - 1)

\* sm.OLS(y, x).fit().params[0]: least squares without intercept, Sxy / Sxx
\* (the two sums are computed once, then reduced)
OLSHedgeRatio(y, x) ==
  LET N == Len(y)
      Sxx == SumTo([k \in 1..N |-> x[k] * x[k]], N)
      Sxy == SumTo([k \in 1..N |-> x[k] * y[k]], N)
  IN CHOOSE h \in {Reduce(sxy, sxx) : sxy \in {Sxy}, sxx \in {Sxx}} : TRUE

\* faulty variant: a zero standard deviation is replaced by 1, so z = 0.0 instead of nan
ZScoreLastNoNaN(y, x) ==
  LET N == Len(y)
      Sxx == SumTo([k \in 1..N |-> x[k] * x[k]], N)
      Sxy == SumTo([k \in 1..N |-> x[k] * y[k]], N)
      S1(e) == SumTo(e, N)
      S2(e) == SumTo([k \in 1..N |-> e[k] * e[k]], N)
      V(e) == N * S2(e) - S1(e) * S1(e)
  IN CHOOSE z \in {Z(N * e[N] - S1(e), IF V(e) = 0 THEN 1 ELSE V(e)) :
                   e \in {[k \in 1..N |-> Sxx * y[k] - Sxy * x[k]]}} : TRUE

\* ((spread - spread.mean()) / spread.std())[-1] for spread = y - hedge_ratio*x.
\* With e = Sxx * spread (integers, computed once):
\* z = (N*e[N] - sum e) / sqrt(N*sum e^2 - (sum e)^2)
ZScoreLast(y, x) ==
  LET N == Len(y)
      Sxx == SumTo([k \in 1..N |-> x[k] * x[k]], N)
      Sxy == SumTo([k \in 1..N |-> x[k] * y[k]], N)
      S1(e) == SumTo(e, N)
      S2(e) == SumTo([k \in 1..N |-> e[k] * e[k]], N)
  IN CHOOSE z \in {Z(N * e[N] - S1(e), N * S2(e) - S1(e) * S1(e)) :
                   e \in {[k \in 1..N |-> Sxx * y[k] - Sxy * x[k]]}} : TRUE

\* faulty variant: the long entry does not look at long_market
EnterLongAnyFlag(z, zh, lm) == ZLe(z, RatNeg(zh))
\* faulty variant: zscore_high is not negated for the long entry
EnterLongPositive(z, zh, lm) == ZLe(z, zh) /\ ~lm
EnterLong(z, zh, lm)  == ZLe(z, RatNeg(zh)) /\ ~lm
\* faulty variant: the exit band is tested on z itself, not on abs(z)
ExitLongSigned(z, zl, lm) == ZLe(z, zl) /\ lm
ExitLong(z, zl, lm)   == ZAbsLe(z, zl) /\ lm
\* faulty variant: strict comparison with zscore_high
EnterShortStrict(z, zh, sm) == ZGe(z, zh) /\ ~ZEq(z, zh) /\ ~sm
EnterShort(z, zh, sm) == ZGe(z, zh) /\ ~sm
\* faulty variant: the short exit does not look at short_market
ExitShortAnyFlag(z, zl, sm) == ZAbsLe(z, zl)
ExitShort(z, zl, sm)  == ZAbsLe(z, zl) /\ sm

\* faulty variant: the four guards form one if/elif chain, the first match wins
calculate_xy_signalsElif(z, lm, sm, hedge, zl, zh) ==
  LET hr == RatAbs(hedge)
      s0 == [long_market |-> lm, short_market |-> sm,
             y_signal |-> None, x_signal |-> None]
  IN CASE EnterLong(z, zh, lm) ->
            [s0 EXCEPT !.long_market = TRUE,
                !.y_signal = SignalEvent(StrategyId, p0, "LONG", One),
                !.x_signal = SignalEvent(StrategyId, p1, "SHORT", hr)]
       [] ~EnterLong(z, zh, lm) /\ ExitLong(z, zl, lm) ->
            [s0 EXCEPT !.long_market = FALSE,
                !.y_signal = SignalEvent(StrategyId, p0, "EXIT", One),
                !.x_signal = SignalEvent(StrategyId, p1, "EXIT", One)]
       [] ~EnterLong(z, zh, lm) /\ ~ExitLong(z, zl, lm)
          /\ EnterShort(z, zh, sm) ->
            [s0 EXCEPT !.short_market = TRUE,
                !.y_signal = SignalEvent(StrategyId, p0, "SHORT", One),
                !.x_signal = SignalEvent(StrategyId, p1, "LONG", hr)]
       [] ~EnterLong(z, zh, lm) /\ ~ExitLong(z, zl, lm)
          /\ ~EnterShort(z, zh, sm) /\ ExitShort(z, zl, sm) ->
            [s0 EXCEPT !.short_market = FALSE,
                !.y_signal = SignalEvent(StrategyId, p0, "EXIT", One),
                !.x_signal = SignalEvent(StrategyId, p1, "EXIT", One)]
       [] OTHER -> s0

\* faulty variant: the x leg of an entry carries hedge_ratio itself, not abs()
calculate_xy_signalsSigned(z, lm, sm, hedge, zl, zh) ==
  LET s0 == [long_market |-> lm, short_market |-> sm,
             y_signal |-> None, x_signal |-> None]
      s1 == IF EnterLong(z, zh, s0.long_market)
            THEN [s0 EXCEPT !.long_market = TRUE,
                     !.y_signal = SignalEvent(StrategyId, p0, "LONG", One),
                     !.x_signal = SignalEvent(StrategyId, p1, "SHORT", hedge)]
            ELSE s0
      s2 == IF ExitLong(z, zl, s1.long_market)
            THEN [s1 EXCEPT !.long_market = FALSE,
                     !.y_signal = SignalEvent(StrategyId, p0, "EXIT", One),
                     !.x_signal = SignalEvent(StrategyId, p1, "EXIT", One)]
            ELSE s1
      s3 == IF EnterShort(z, zh, s2.short_market)
            THEN [s2 EXCEPT !.short_market = TRUE,
                     !.y_signal = SignalEvent(StrategyId, p0, "SHORT", One),
                     !.x_signal = SignalEvent(StrategyId, p1, "LONG", hedge)]
            ELSE s2
      s4 == IF ExitShort(z, zl, s3.short_market)
            THEN [s3 EXCEPT !.short_market = FALSE,
                     !.y_signal = SignalEvent(StrategyId, p0, "EXIT", One),
                     !.x_signal = SignalEvent(StrategyId, p1, "EXIT", One)]
            ELSE s3
  IN s4

\* calculate_xy_signals: four independent guards, each on the flags as the
\* earlier ones left them; returns the flags and the pending (y, x) signals
calculate_xy_signals(z, lm, sm, hedge, zl, zh) ==
  LET hr == RatAbs(hedge)
      s0 == [long_market |-> lm, short_market |-> sm,
             y_signal |-> None, x_signal |-> None]
      s1 == IF EnterLong(z, zh, s0.long_market)
            THEN [s0 EXCEPT !.long_market = TRUE,
                     !.y_signal = SignalEvent(StrategyId, p0, "LONG", One),
                     !.x_signal = SignalEvent(StrategyId, p1, "SHORT", hr)]
            ELSE s0
      s2 == IF ExitLong(z, zl, s1.long_market)
            THEN [s1 EXCEPT !.long_market = FALSE,
                     !.y_signal = SignalEvent(StrategyId, p0, "EXIT", One),
                     !.x_signal = SignalEvent(StrategyId, p1, "EXIT", One)]
            ELSE s1
      s3 == IF EnterShort(z, zh, s2.short_market)
            THEN [s2 EXCEPT !.short_market = TRUE,
                     !.y_signal = SignalEvent(StrategyId, p0, "SHORT", One),
                     !.x_signal = SignalEvent(StrategyId, p1, "LONG", hr)]
            ELSE s2
      s4 == IF ExitShort(z, zl, s3.short_market)
            THEN [s3 EXCEPT !.short_market = FALSE,
                     !.y_signal = SignalEvent(StrategyId, p0, "EXIT", One),
                     !.x_signal = SignalEvent(StrategyId, p1, "EXIT", One)]
            ELSE s3
  IN s4

\* faulty variant: the legs are checked to be aligned, not to fill the window
WindowReadyAligned(y, x, w) ==
  /\ y # None /\ x # None
  /\ Len(y.values) = Len(x.values)

\* "y is not None and x is not None" and both windows are full
WindowReady(y, x, w) ==
  /\ y # None /\ x # None
  /\ Len(y.values) >= w /\ Len(x.values) >= w

\* faulty variant: the x leg is never put
PutSignalsYOnly(q, y_signal, x_signal) ==
  IF y_signal # None /\ x_signal # None THEN Append(q, y_signal) ELSE q

\* the two puts of calculate_signals_for_pairs
PutSignals(q, y_signal, x_signal) ==
  IF y_signal # None /\ x_signal # None
  THEN Append(Append(q, y_signal), x_signal)
  ELSE q

\* calculate_signals_for_pairs, called with the queue as q
calculate_signals_for_pairs(q) ==
  \E y \in {get_latest_bars_values(latest_symbol_data, p0, ols_window)},
     x \in {get_latest_bars_values(latest_symbol_data, p1, ols_window)} :
     IF WindowReady(y, x, ols_window)
     THEN \E hedge \in {OLSHedgeRatio(y.values, x.values)},
             z \in {ZScoreLast(y.values, x.values)} :
          \E r \in {calculate_xy_signals(z, long_market, short_market, hedge,
                                         zscore_low, zscore_high)} :
             /\ hedge_ratio' = hedge
             /\ zscore_last' = z
             /\ long_market' = r.long_market
             /\ short_market' = r.short_market
             /\ ret' = <<r.y_signal, r.x_signal>>
             /\ events' = PutSignals(q, r.y_signal, r.x_signal)
     ELSE /\ events' = q
          /\ UNCHANGED strategyVars

\* faulty variant: the event's type is not looked at
calculate_signalsAnyEvent(event, q) == calculate_signals_for_pairs(q)

\* calculate_signals(event)
calculate_signals(event, q) ==
  IF event.type = "MARKET"
  THEN calculate_signals_for_pairs(q)
  ELSE events' = q /\ UNCHANGED strategyVars

-----------------------------------------------------------------------------
(* Portfolio and execution handler: collaborators outside src/ *)

BaseQuantity == 2

\* floor(BaseQuantity * strength)
OrderQuantity(strength) == (BaseQuantity * strength.n) \div strength.d

\* Portfolio.update_signal: the order a signal turns into, None for an EXIT
\* of a symbol that is already flat
generate_order(signal, positions) ==
  LET cur == positions[signal.symbol]
  IN CASE signal.signal_type = "LONG" ->
            OrderEvent(signal.symbol, "MKT", OrderQuantity(signal.strength), "BUY")
       [] signal.signal_type = "SHORT" ->
            OrderEvent(signal.symbol, "MKT", OrderQuantity(signal.strength), "SELL")
       [] signal.signal_type = "EXIT" /\ cur > 0 ->
            OrderEvent(signal.symbol, "MKT", cur, "SELL")
       [] signal.signal_type = "EXIT" /\ cur < 0 ->
            OrderEvent(signal.symbol, "MKT", -cur, "BUY")
       [] OTHER -> None

update_signal(signal, positions, q) ==
  LET order == generate_order(signal, positions)
  IN IF order = None THEN q ELSE Append(q, order)

\* ExecutionHandler.execute_order: synchronous, always one fill
execute_order(order, q) ==
  Append(q, FillEvent(order.symbol, order.quantity, order.direction))

\* Portfolio.update_fill
update_fill(fill, positions) ==
  [positions EXCEPT ![fill.symbol] =
     IF fill.direction = "BUY" THEN @ + fill.quantity ELSE @ - fill.quantity]

\* Portfolio.update_timeindex: one equity sample, taken while the queue is q
update_timeindex(curve, positions, q) ==
  Append(curve, [positions |-> positions, queued |-> Len(q)])

-----------------------------------------------------------------------------
(* Backtest *)

\* the (ols_window, zscore_low, zscore_high) sets a Backtest is run with
StratParams ==
  { [ols_window |-> 100, zscore_low |-> Rat(1, 2), zscore_high |-> Rat(3, 1)],
    [ols_window |-> 2,   zscore_low |-> Rat(1, 2), zscore_high |-> Rat(1, 1)],
    [ols_window |-> 3,   zscore_low |-> Rat(1, 2), zscore_high |-> Rat(1, 1)],
    [ols_window |-> 2,   zscore_low |-> Rat(1, 1), zscore_high |-> Rat(1, 1)] }

Init ==
  /\ latest_symbol_data = [s \in {p0, p1} |-> <<>>]
  /\ bar_index = 0
  /\ continue_backtest = TRUE
  /\ events = <<>>
  /\ \E sp \in StratParams :
       /\ ols_window = sp.ols_window
       /\ zscore_low = sp.zscore_low
       /\ zscore_high = sp.zscore_high
  /\ strat_index = 1
  /\ hedge_ratio = NoHedgeRatio
  /\ long_market = FALSE
  /\ short_market = FALSE
  /\ zscore_last = NaN
  /\ ret = <<None, None>>
  /\ signals = 0 /\ orders = 0 /\ fills = 0
  /\ i = 0
  /\ pc = "feed"
  /\ current_positions = [s \in {p0, p1} |-> 0]
  /\ equity_curve = <<>>
  /\ dispatched = <<>>
  /\ dropped = 0
  /\ put_log = <<>>
  /\ call_log = <<>>

\* what a step appended to the queue, given the queue it started from
Added(q, q2) == SubSeq(q2, Len(q) + 1, Len(q2))

\* faulty variant: the newest event is handed out first
GetNewest(q) == [event |-> q[Len(q)], rest |-> SubSeq(q, 1, Len(q) - 1)]

\* events.get(False): the event handed out and the queue left behind
Get(q) == [event |-> Head(q), rest |-> Tail(q)]

\* first loop of _run_backtest, data left: i += 1; update_bars()
UpdateBars ==
  /\ pc = "feed"
  /\ continue_backtest
  /\ i' = i + 1
  /\ \E ny \in 0..MaxClose, nx \in 0..MaxClose, more \in BOOLEAN :
       update_bars(ny, nx, more)
  /\ put_log' = Append(put_log, MarketEvent)
  /\ UNCHANGED <<paramVars, strategyVars, counterVars, pc, portfolioVars,
                 historyVars>>

\* first loop of _run_backtest, feed exhausted: i += 1; break
FeedExhausted ==
  /\ pc = "feed"
  /\ ~continue_backtest
  /\ i' = i + 1
  /\ pc' = "drain"
  /\ UNCHANGED <<feedVars, events, paramVars, strategyVars, counterVars,
                 portfolioVars, historyVars, put_log>>

\* faulty variant: equity is marked before the strategy has reacted
DispatchMarketMarkFirst ==
  /\ pc = "drain" /\ events # <<>>
  /\ LET g == Get(events) IN
       /\ g.event.type = "MARKET"
       /\ equity_curve' = update_timeindex(equity_curve, current_positions, g.rest)
       /\ calculate_signals(g.event, g.rest)
       /\ put_log' = put_log \o Added(g.rest, events')
       /\ dispatched' = Append(dispatched, g.event)
  /\ call_log' = call_log \o <<"update_timeindex", "calculate_signals">>
  /\ UNCHANGED <<feedVars, paramVars, counterVars, i, pc, current_positions,
                 dropped>>

\* MARKET: strategy.calculate_signals(event), then portfolio.update_timeindex(event)
DispatchMarket ==
  /\ pc = "drain" /\ events # <<>>
  /\ LET g == Get(events) IN
       /\ g.event.type = "MARKET"
       /\ calculate_signals(g.event, g.rest)
       /\ equity_curve' = update_timeindex(equity_curve, current_positions, events')
       /\ put_log' = put_log \o Added(g.rest, events')
       /\ dispatched' = Append(dispatched, g.event)
  /\ call_log' = call_log \o <<"calculate_signals", "update_timeindex">>
  /\ UNCHANGED <<feedVars, paramVars, counterVars, i, pc, current_positions,
                 dropped>>

\* SIGNAL: signals += 1; portfolio.update_signal(event)
DispatchSignal ==
  /\ pc = "drain" /\ events # <<>>
  /\ LET g == Get(events) IN
       /\ g.event.type = "SIGNAL"
       /\ signals' = signals + 1
       /\ events' = update_signal(g.event, current_positions, g.rest)
       /\ put_log' = put_log \o Added(g.rest, events')
       /\ dispatched' = Append(dispatched, g.event)
  /\ call_log' = Append(call_log, "update_signal")
  /\ UNCHANGED <<feedVars, paramVars, strategyVars, orders, fills, i, pc,
                 portfolioVars, dropped>>

\* ORDER: orders += 1; execution_handler.execute_order(event)
DispatchOrder ==
  /\ pc = "drain" /\ events # <<>>
  /\ LET g == Get(events) IN
       /\ g.event.type = "ORDER"
       /\ orders' = orders + 1
       /\ events' = execute_order(g.event, g.rest)
       /\ put_log' = put_log \o Added(g.rest, events')
       /\ dispatched' = Append(dispatched, g.event)
  /\ call_log' = Append(call_log, "execute_order")
  /\ UNCHANGED <<feedVars, paramVars, strategyVars, signals, fills, i, pc,
                 portfolioVars, dropped>>

\* faulty variant: a fill is counted as an order
DispatchFillCountsOrder ==
  /\ pc = "drain" /\ events # <<>>
  /\ LET g == Get(events) IN
       /\ g.event.type = "FILL"
       /\ orders' = orders + 1
       /\ current_positions' = update_fill(g.event, current_positions)
       /\ events' = g.rest
       /\ dispatched' = Append(dispatched, g.event)
  /\ call_log' = Append(call_log, "update_fill")
  /\ UNCHANGED <<feedVars, paramVars, strategyVars, signals, fills, i, pc,
                 equity_curve, dropped, put_log>>

\* FILL: fills += 1; portfolio.update_fill(event)
DispatchFill ==
  /\ pc = "drain" /\ events # <<>>
  /\ LET g == Get(events) IN
       /\ g.event.type = "FILL"
       /\ fills' = fills + 1
       /\ current_positions' = update_fill(g.event, current_positions)
       /\ events' = g.rest
       /\ dispatched' = Append(dispatched, g.event)
  /\ call_log' = Append(call_log, "update_fill")
  /\ UNCHANGED <<feedVars, paramVars, strategyVars, signals, orders, i, pc,
                 equity_curve, dropped, put_log>>

\* None, or a type no branch names: nothing is called, the loop goes on
DispatchOther ==
  /\ pc = "drain" /\ events # <<>>
  /\ LET g == Get(events) IN
       /\ g.event.type \notin {"MARKET", "SIGNAL", "ORDER", "FILL"}
       /\ events' = g.rest
  /\ dropped' = dropped + 1
  /\ UNCHANGED <<feedVars, paramVars, strategyVars, counterVars, i, pc,
                 portfolioVars, dispatched, put_log, call_log>>

\* faulty variant: queue.Empty is answered by polling again instead of break
QueueEmptyRetry ==
  /\ pc = "drain" /\ events = <<>>
  /\ UNCHANGED vars

\* queue.Empty: break, time.sleep(heartbeat), return
QueueEmpty ==
  /\ pc = "drain" /\ events = <<>>
  /\ pc' = "done"
  /\ UNCHANGED <<feedVars, events, paramVars, strategyVars, counterVars, i,
                 portfolioVars, historyVars, put_log>>

Next ==
  \/ UpdateBars
  \/ FeedExhausted
  \/ DispatchMarket
  \/ DispatchSignal
  \/ DispatchOrder
  \/ DispatchFill
  \/ QueueEmpty

Spec == Init /\ [][Next]_vars

\* _run_backtest is one sequential thread: while a statement of the loops can
\* run, one eventually does
FairSpec == Spec /\ WF_vars(Next)

-----------------------------------------------------------------------------
(* simulate_trading: one Backtest object runs the parameter sets of        *)
(* strat_params_list one after the other.  dispatched, put_log and         *)
(* call_log are the history of the run in progress.                        *)

\* the run has returned and been reported; next sp of the loop:
\* self._generate_trading_instances(sp), then self._run_backtest() starts.
\* A new DataHandler, Strategy, Portfolio and ExecutionHandler are built on
\* self.events; self.events, self.signals, self.orders and self.fills are
\* those of Backtest.__init__
GenerateTradingInstances ==
  /\ pc = "done"
  /\ strat_index < MaxRuns
  /\ strat_index' = strat_index + 1
  /\ \E sp \in StratParams :
       /\ ols_window' = sp.ols_window
       /\ zscore_low' = sp.zscore_low
       /\ zscore_high' = sp.zscore_high
  /\ latest_symbol_data' = [s \in {p0, p1} |-> <<>>]
  /\ bar_index' = 0
  /\ continue_backtest' = TRUE
  /\ hedge_ratio' = NoHedgeRatio
  /\ long_market' = FALSE
  /\ short_market' = FALSE
  /\ zscore_last' = NaN
  /\ ret' = <<None, None>>
  /\ current_positions' = [s \in {p0, p1} |-> 0]
  /\ equity_curve' = <<>>
  /\ i' = 0
  /\ pc' = "feed"
  /\ dispatched' = <<>>
  /\ dropped' = 0
  /\ put_log' = events
  /\ call_log' = <<>>
  /\ UNCHANGED <<events, counterVars>>

NextSimulate ==
  \/ Next
  \/ GenerateTradingInstances

SpecSimulate == Init /\ [][NextSimulate]_vars

-----------------------------------------------------------------------------
(* The same run when a collaborator sharing the queue puts on it, while    *)
(* the feed is read, None or an event of a type the driver does not know.  *)

ForeignEvents == {None, [type |-> "HEARTBEAT"]}

PutForeign ==
  /\ pc = "feed"
  /\ dropped + Len(SelectSeq(events, LAMBDA e : e.type \notin
                     {"MARKET", "SIGNAL", "ORDER", "FILL"})) < MaxForeign
  /\ \E e \in ForeignEvents : events' = Append(events, e)
  /\ UNCHANGED <<feedVars, paramVars, strategyVars, counterVars, i, pc,
                 portfolioVars, historyVars, put_log>>

NextForeign ==
  \/ Next
  \/ PutForeign
  \/ DispatchOther

SpecForeign == Init /\ [][NextForeign]_vars

-----------------------------------------------------------------------------------------------------------------------------------------------------
(* The strategy object on its own, fed bar by bar: the caller advances the *)
(* feed when the queue is empty and hands every queued event to            *)
(* calculate_signals; it may also call calculate_signals with events of    *)
(* its own.                                                                *)

DirectEvents == {OrderEvent(p0, "MKT", 1, "BUY"), FillEvent(p0, 1, "BUY"),
                 SignalEvent(StrategyId, p0, "LONG", One)}

StrategyUpdateBars ==
  /\ continue_backtest
  /\ events = <<>>
  /\ \E ny \in 0..MaxClose, nx \in 0..MaxClose, more \in BOOLEAN :
       update_bars(ny, nx, more)
  /\ put_log' = Append(put_log, MarketEvent)
  /\ UNCHANGED <<paramVars, strategyVars, counterVars, i, pc, portfolioVars,
                 historyVars>>

\* event = events.get(False); strategy.calculate_signals(event)
StrategyCalculateSignals ==
  /\ events # <<>>
  /\ LET g == Get(events) IN
       /\ calculate_signals(g.event, g.rest)
       /\ put_log' = put_log \o Added(g.rest, events')
       /\ dispatched' = Append(dispatched, g.event)
  /\ call_log' = Append(call_log, "calculate_signals")
  /\ UNCHANGED <<feedVars, paramVars, counterVars, i, pc, portfolioVars,
                 dropped>>

\* strategy.calculate_signals(event) with an event that is not a MarketEvent
StrategyCalculateSignalsDirect ==
  /\ \E event \in DirectEvents : calculate_signals(event, events)
  /\ UNCHANGED <<feedVars, paramVars, counterVars, i, pc, portfolioVars,
                 historyVars, put_log>>

NextStrategy ==
  \/ StrategyUpdateBars
  \/ StrategyCalculateSignals
  \/ StrategyCalculateSignalsDirect

SpecStrategy == Init /\ [][NextStrategy]_vars

-----------------------------------------------------------------------------
(* The run of the driver while a caller of its own hands the strategy      *)
(* events that are not Market events.                                      *)

NextFrame ==
  \/ Next
  \/ StrategyCalculateSignalsDirect

SpecFrame == Init /\ [][NextFrame]_vars

-----------------------------------------------------------------------------
(* calculate_xy_signals called directly with z-scores of the caller's      *)
(* choice.  Line 60 reads self.hedge_ratio, which __init__ does not set:   *)
(* the caller assigns it first (before that the call raises AttributeError *)
(* and changes nothing).                                                   *)

ZScores == {Z(k, 4) : k \in -MaxZHalves..MaxZHalves} \cup {NaN}

HedgeRatios == {Rat(1, 1), Rat(-3, 2)}

\* strategy.hedge_ratio = h
AssignHedgeRatio ==
  /\ \E h \in HedgeRatios : hedge_ratio' = h
  /\ UNCHANGED <<feedVars, events, paramVars, long_market, short_market,
                 zscore_last, ret, counterVars, i, pc, portfolioVars,
                 historyVars, put_log>>

\* strategy.calculate_xy_signals(z)
CalculateXY ==
  /\ hedge_ratio # NoHedgeRatio
  /\ \E z \in ZScores :
       LET r == calculate_xy_signals(z, long_market, short_market, hedge_ratio,
                                     zscore_low, zscore_high)
       IN /\ zscore_last' = z
          /\ long_market' = r.long_market
          /\ short_market' = r.short_market
          /\ ret' = <<r.y_signal, r.x_signal>>
  /\ UNCHANGED <<feedVars, events, paramVars, hedge_ratio, counterVars, i, pc,
                 portfolioVars, historyVars, put_log>>

NextXY ==
  \/ AssignHedgeRatio
  \/ CalculateXY

SpecXY == Init /\ [][NextXY]_vars

-----------------------------------------------------------------------------
(* A fitted strategy given a sequence of z-scores, one per tick: the last  *)
(* lines of calculate_signals_for_pairs (116-120) with the z-score of the  *)
(* window supplied by the caller.  call_log records every tick: the        *)
(* z-score, the pair returned and the flags the call left.                 *)

\* the whole z-scores among ZScores, and nan
TickZScores == {z \in ZScores : z.D % 2 = 0}

\* self.hedge_ratio = h, once, as the fit on the first full window does
FitHedgeRatio ==
  /\ hedge_ratio = NoHedgeRatio
  /\ \E h \in HedgeRatios : hedge_ratio' = h
  /\ UNCHANGED <<feedVars, events, paramVars, long_market, short_market,
                 zscore_last, ret, counterVars, i, pc, portfolioVars,
                 historyVars, put_log>>

\* y_signal, x_signal = self.calculate_xy_signals(zscore_last); both put if
\* neither is None
Tick ==
  /\ hedge_ratio # NoHedgeRatio
  /\ Len(call_log) < MaxTicks
  /\ \E z \in TickZScores :
     \E r \in {calculate_xy_signals(z, long_market, short_market, hedge_ratio,
                                    zscore_low, zscore_high)} :
       /\ zscore_last' = z
       /\ long_market' = r.long_market
       /\ short_market' = r.short_market
       /\ ret' = <<r.y_signal, r.x_signal>>
       /\ events' = PutSignals(events, r.y_signal, r.x_signal)
       /\ put_log' = put_log \o Added(events, events')
       /\ call_log' = Append(call_log,
                             [zscore_last |-> z,
                              ret |-> <<r.y_signal, r.x_signal>>,
                              long_market |-> r.long_market,
                              short_market |-> r.short_market])
  /\ UNCHANGED <<feedVars, paramVars, hedge_ratio, counterVars, i, pc,
                 portfolioVars, dispatched, dropped>>

NextTicks ==
  \/ FitHedgeRatio
  \/ Tick

SpecTicks == Init /\ [][NextTicks]_vars

-----------------------------------------------------------------------------------------------------------------------------------------------------
(* Vocabulary of the properties *)

Known == {"MARKET", "SIGNAL", "ORDER", "FILL"}

RECURSIVE CountType(_, _)
CountType(log, type) ==
  IF log = <<>> THEN 0
  ELSE (IF Head(log).type = type THEN 1 ELSE 0) + CountType(Tail(log), type)

IsLegSignal(e, symbol) == e.type = "SIGNAL" /\ e.symbol = symbol

RECURSIVE CountLeg(_, _)
CountLeg(log, symbol) ==
  IF log = <<>> THEN 0
  ELSE (IF IsLegSignal(Head(log), symbol) THEN 1 ELSE 0)
       + CountLeg(Tail(log), symbol)

Last(s) == s[Len(s)]

BarsSeen(symbol) == Len(latest_symbol_data[symbol])

Flat == ~long_market /\ ~short_market

\* a step in which calculate_signals received the MarketEvent at the queue's head
MarketTick ==
  /\ Len(dispatched') = Len(dispatched) + 1
  /\ Last(dispatched').type = "MARKET"

\* a step that is one call of calculate_xy_signals on a fitted strategy
XYCall == hedge_ratio' = hedge_ratio /\ hedge_ratio # NoHedgeRatio

hr == RatAbs(hedge_ratio)
LongEntryPair  == <<SignalEvent(StrategyId, p0, "LONG", One),
                    SignalEvent(StrategyId, p1, "SHORT", hr)>>
ShortEntryPair == <<SignalEvent(StrategyId, p0, "SHORT", One),
                    SignalEvent(StrategyId, p1, "LONG", hr)>>
ExitPair       == <<SignalEvent(StrategyId, p0, "EXIT", One),
                    SignalEvent(StrategyId, p1, "EXIT", One)>>

-----------------------------------------------------------------------------
(* C1: long_market and short_market are never both True, whatever z-scores *)
(* the strategy is given.                                                  *)

C1_NeverBothInMarket == ~(long_market /\ short_market)

-----------------------------------------------------------------------------
(* C2: the queue is empty every time _run_backtest advances the feed, so   *)
(* all events of bar k are dispatched before update_bars is called for     *)
(* bar k+1.                                                                *)

C2_QueueEmptyAtAdvance == [][bar_index' # bar_index => events = <<>>]_vars

-----------------------------------------------------------------------------
(* C3: signals are put in pairs: as many y-leg as x-leg signals, every     *)
(* y-leg signal immediately followed by an x-leg signal and every x-leg    *)
(* signal immediately preceded by a y-leg one, at most one pair per        *)
(* Market event.                                                           *)

C3_SignalsInPairs ==
  /\ CountLeg(put_log, p0) = CountLeg(put_log, p1)
  /\ CountLeg(put_log, p0) <= CountType(dispatched, "MARKET")
  /\ \A k \in 1..Len(put_log) :
       /\ IsLegSignal(put_log[k], p0) =>
            k < Len(put_log) /\ IsLegSignal(put_log[k + 1], p1)
       /\ IsLegSignal(put_log[k], p1) =>
            k > 1 /\ IsLegSignal(put_log[k - 1], p0)

C3_Witness ==
  /\ CountLeg(put_log, p0) >= 2
  /\ CountLeg(put_log, p0) < CountType(dispatched, "MARKET")

-----------------------------------------------------------------------------
(* C4: a Market event that finds fewer than ols_window closes (or None)    *)
(* for either leg puts no signal and leaves the flags alone; no signal     *)
(* exists before both legs have ols_window bars.                           *)

WarmingUp == BarsSeen(p0) < ols_window \/ BarsSeen(p1) < ols_window

C4_WarmUpNoSignal ==
  /\ [](WarmingUp => CountType(put_log, "SIGNAL") = 0)
  /\ [][MarketTick /\ WarmingUp =>
          /\ put_log' = put_log
          /\ long_market' = long_market /\ short_market' = short_market]_vars

C4_Witness ==
  /\ dispatched # <<>> /\ Last(dispatched).type = "MARKET"
  /\ events = <<>>
  /\ BarsSeen(p0) >= ols_window /\ BarsSeen(p1) < ols_window
  /\ BarsSeen(p1) > 0

-----------------------------------------------------------------------------
(* C5: the thresholds are inclusive.  From FLAT, z = zscore_high fires the *)
(* short entry and z = -zscore_high the long entry (when zscore_low >=     *)
(* zscore_high the exit guard of the same call then closes it again);      *)
(* in a position, |z| = zscore_low fires the exit.                         *)

C5_InclusiveThresholds ==
  [][XYCall =>
       /\ Flat /\ ZEq(zscore_last', zscore_high) =>
            IF RatLt(zscore_low, zscore_high)
            THEN short_market' /\ ~long_market' /\ ret' = ShortEntryPair
            ELSE ~short_market' /\ ~long_market' /\ ret' = ExitPair
       /\ Flat /\ ZEq(zscore_last', RatNeg(zscore_high)) =>
            IF RatLt(zscore_low, zscore_high)
            THEN long_market' /\ ~short_market' /\ ret' = LongEntryPair
            ELSE ~short_market' /\ ~long_market' /\ ret' = ExitPair
       /\ /\ ~Flat
          /\ ZEq(zscore_last', zscore_low) \/ ZEq(zscore_last', RatNeg(zscore_low))
          => ~short_market' /\ ~long_market' /\ ret' = ExitPair]_vars

C5_Witness ==
  /\ ZEq(zscore_last, zscore_high)
  /\ RatLt(zscore_low, zscore_high)
  /\ short_market /\ ~long_market
  /\ ret = ShortEntryPair

-----------------------------------------------------------------------------
(* C8: a Market event whose full window has a spread of zero standard      *)
(* deviation (for positive closes: y proportional to x over the window)    *)
(* puts no signal, leaves the flags alone, and calculate_signals returns.  *)

\* the windows the strategy is handed are full and proportional
DegenerateWindow ==
  /\ ~WarmingUp
  /\ LET y == LastN(latest_symbol_data[p0], ols_window)
         x == LastN(latest_symbol_data[p1], ols_window)
     IN \A j, k \in 1..ols_window : y[j] * x[k] = y[k] * x[j]

C8_DegenerateWindowNoOp ==
  [][MarketTick /\ DegenerateWindow =>
       /\ put_log' = put_log
       /\ events' = Tail(events)
       /\ long_market' = long_market /\ short_market' = short_market]_vars

C8_Witness ==
  /\ dispatched # <<>> /\ Last(dispatched).type = "MARKET"
  /\ DegenerateWindow
  /\ zscore_last = NaN
  /\ short_market
  /\ events = <<>>

-----------------------------------------------------------------------------
(* C6: signals, orders and fills equal the numbers of SIGNAL, ORDER and    *)
(* FILL events dispatched in the run (at its end and all along); a Market  *)
(* event counts nowhere.                                                   *)

-----------------------------------------------------------------------------
(* C7: an event of unknown type (or None) at the head of the queue makes   *)
(* the driver abort the run instead of dropping it and draining on.        *)

C7_AbortOnUnknown ==
  [][pc = "drain" /\ events # <<>> /\ Head(events).type \notin Known =>
       pc' = "aborted"]_vars

-----------------------------------------------------------------------------
(* C9: each dispatched Market event calls strategy.calculate_signals once  *)
(* and then portfolio.update_timeindex once: one equity sample per Market  *)
(* event, taken when the signals of that event are already queued.         *)

C9_StrategyThenEquity ==
  /\ [](Len(equity_curve) = CountType(dispatched, "MARKET"))
  /\ [][Len(dispatched') > Len(dispatched) /\ Last(dispatched').type = "MARKET" =>
          /\ call_log' = call_log \o <<"calculate_signals", "update_timeindex">>
          /\ Len(equity_curve') = Len(equity_curve) + 1
          /\ Last(equity_curve').queued = Len(events')
          /\ put_log' = put_log \o Added(Tail(events), events')]_vars
  /\ [][equity_curve' # equity_curve =>
          Len(dispatched') > Len(dispatched) /\ Last(dispatched').type = "MARKET"]_vars

C9_Witness ==
  /\ Len(equity_curve) >= 2
  /\ Last(equity_curve).queued >= 2
  /\ Last(dispatched).type = "MARKET"
  /\ Len(events) >= 2
  /\ IsLegSignal(events[Len(events) - 1], p0)
  /\ IsLegSignal(Last(events), p1)

-----------------------------------------------------------------------------
(* C10: events are dispatched in the order they were put (FIFO): the y-leg *)
(* signal before the x-leg signal, their orders and fills likewise; an     *)
(* empty queue ends the drain normally.                                    *)

C10_FifoDispatch ==
  /\ [](put_log = dispatched \o events)
  /\ [](pc = "done" => events = <<>> /\ dispatched = put_log)
  /\ [][pc = "drain" /\ events = <<>> => pc' = "done"]_vars

C10_Witness ==
  /\ pc = "done"
  /\ \E a, b, c, d \in 1..Len(dispatched) :
       /\ a < b /\ b < c /\ c < d
       /\ IsLegSignal(dispatched[a], p0) /\ IsLegSignal(dispatched[b], p1)
       /\ dispatched[c].type = "ORDER" /\ dispatched[c].symbol = p0
       /\ dispatched[d].type = "FILL" /\ dispatched[d].symbol = p1

-----------------------------------------------------------------------------
(* C11: _run_backtest terminates (the feed reports exhaustion after        *)
(* finitely many update_bars calls and every dispatched event puts finitely *)
(* many follow-ups), it returns only after the feed has reported           *)
(* exhaustion and with nothing left on the queue, and once returned it     *)
(* does nothing more.                                                      *)

C11_Termination ==
  /\ <>(pc = "done")
  /\ [](pc = "done" => ~continue_backtest /\ events = <<>>)
  /\ [][pc = "done" => pc' = "done"]_vars

C11_Witness ==
  /\ pc = "done"
  /\ bar_index = MaxBars
  /\ fills >= 2
  /\ Len(dispatched) > bar_index

-----------------------------------------------------------------------------
(* C12: last write wins.  One call of calculate_xy_signals tries the       *)
(* guards in the order enter-long, exit-long, enter-short, exit-short,     *)
(* each on the flags as the earlier guards left them; every matching guard *)
(* updates its flag, the pair returned is that of the last matching guard, *)
(* and (None, None) is returned iff no guard matched.                      *)

\* the guards of a call with z-score z from flags lm, sm, spelled out
G1(z, lm) == ZLe(z, RatNeg(zscore_high)) /\ ~lm
Lm1(z, lm) == IF G1(z, lm) THEN TRUE ELSE lm
G2(z, lm) == ZAbsLe(z, zscore_low) /\ Lm1(z, lm)
Lm2(z, lm) == IF G2(z, lm) THEN FALSE ELSE Lm1(z, lm)
G3(z, sm) == ZGe(z, zscore_high) /\ ~sm
Sm3(z, sm) == IF G3(z, sm) THEN TRUE ELSE sm
G4(z, sm) == ZAbsLe(z, zscore_low) /\ Sm3(z, sm)
Sm4(z, sm) == IF G4(z, sm) THEN FALSE ELSE Sm3(z, sm)

\* a step in which calculate_xy_signals ran: called directly on a strategy
\* that was never fed, or by calculate_signals_for_pairs on a full window
XYCalled ==
  \/ bar_index = 0 /\ XYCall
  \/ MarketTick /\ ~WarmingUp

C12_LastWriteWins ==
  [][XYCalled =>
       LET z == zscore_last' IN
         /\ long_market' = Lm2(z, long_market)
         /\ short_market' = Sm4(z, short_market)
         /\ ret' = IF G4(z, short_market) THEN ExitPair
                   ELSE IF G3(z, short_market) THEN ShortEntryPair'
                   ELSE IF G2(z, long_market) THEN ExitPair
                   ELSE IF G1(z, long_market) THEN LongEntryPair'
                   ELSE <<None, None>>
         /\ ret' = <<None, None>> <=>
              ~(G1(z, long_market) \/ G2(z, long_market)
                \/ G3(z, short_market) \/ G4(z, short_market))]_vars

\* the only pair ever put is an EXIT pair, returned by the latest call: no
\* guard had matched before it, so it started flat, an entry guard matched
\* and the exit guard after it overwrote the entry pair
C12_Witness ==
  /\ CountType(put_log, "SIGNAL") = 2
  /\ ret = ExitPair
  /\ Last(put_log) = ExitPair[2]
  /\ ZEq(zscore_last, zscore_high)
  /\ Flat

-----------------------------------------------------------------------------
(* C13: signal contents per transition.  A call that takes long_market     *)
(* from False to True returns (y LONG 1.0, x SHORT |hedge_ratio|), one     *)
(* that takes short_market from False to True returns (y SHORT 1.0,        *)
(* x LONG |hedge_ratio|), one that clears a flag returns (y EXIT 1.0,      *)
(* x EXIT 1.0); conversely a returned entry pair comes with its flag set   *)
(* and a returned EXIT pair with the flags cleared.  The legs of an entry  *)
(* pair have opposite directions, those of an exit pair are both EXIT.     *)

Signal(symbol, signal_type, strength) ==
  [type |-> "SIGNAL", strategy_id |-> 1, symbol |-> symbol,
   signal_type |-> signal_type, strength |-> strength]

C13_SignalContents ==
  [][XYCalled =>
       LET y == ret'[1]
           x == ret'[2]
           absHedge == Rat(Abs(hedge_ratio'.n), hedge_ratio'.d)
       IN
         /\ ~long_market /\ long_market' =>
              y = Signal("AAPL", "LONG", Rat(1, 1)) /\ x = Signal("MSFT", "SHORT", absHedge)
         /\ ~short_market /\ short_market' =>
              y = Signal("AAPL", "SHORT", Rat(1, 1)) /\ x = Signal("MSFT", "LONG", absHedge)
         /\ \/ long_market /\ ~long_market'
            \/ short_market /\ ~short_market'
            => y = Signal("AAPL", "EXIT", Rat(1, 1)) /\ x = Signal("MSFT", "EXIT", Rat(1, 1))
         /\ y # None \/ x # None =>
              /\ y.type = "SIGNAL" /\ x.type = "SIGNAL"
              /\ <<y.signal_type, x.signal_type>> \in
                    {<<"LONG", "SHORT">>, <<"SHORT", "LONG">>, <<"EXIT", "EXIT">>}
              /\ y.signal_type = "LONG" => long_market' /\ <<y, x>> = LongEntryPair'
              /\ y.signal_type = "SHORT" => short_market' /\ <<y, x>> = ShortEntryPair'
              /\ y.signal_type = "EXIT" => Flat' /\ <<y, x>> = ExitPair
         /\ MarketTick =>
              put_log' = put_log \o (IF y = None THEN <<>> ELSE <<y, x>>)]_vars

\* a long entry made with the negative hedge ratio -3/2: the x leg carries 3/2
C13_Witness ==
  /\ long_market /\ ~short_market
  /\ ret = <<Signal("AAPL", "LONG", Rat(1, 1)), Signal("MSFT", "SHORT", Rat(3, 2))>>
  /\ Rat(-3, 2) \in HedgeRatios

-----------------------------------------------------------------------------
(* C14: entry-then-exit scenario.  With zscore_low < zscore_high, for a    *)
(* strategy starting FLAT and a z-score sequence that is strictly inside   *)
(* (-zscore_high, zscore_high) before tick t, is <= -zscore_high at t, has *)
(* |z| > zscore_low and z < zscore_high strictly between t and u, and has  *)
(* |z| <= zscore_low at u > t: nothing is emitted before t, the long entry *)
(* pair at t (long_market True), nothing between t and u, the EXIT pair at *)
(* u (FLAT again); the queue received exactly those two pairs.             *)

ZLt(z, t) == z.V > 0 /\ ~ZGe(z, t)
ZGt(z, t) == z.V > 0 /\ ~ZLe(z, t)
ZAbsGt(z, t) == z.V > 0 /\ ~ZAbsLe(z, t)

NoPair == <<None, None>>
IsLongEntry(r) ==
  /\ r[1] = Signal("AAPL", "LONG", Rat(1, 1))
  /\ r[2].type = "SIGNAL" /\ r[2].symbol = "MSFT" /\ r[2].signal_type = "SHORT"
IsShortEntry(r) ==
  /\ r[1] = Signal("AAPL", "SHORT", Rat(1, 1))
  /\ r[2].type = "SIGNAL" /\ r[2].symbol = "MSFT" /\ r[2].signal_type = "LONG"
IsExit(r) ==
  r = <<Signal("AAPL", "EXIT", Rat(1, 1)), Signal("MSFT", "EXIT", Rat(1, 1))>>

\* the z-scores of ticks 1..t are those of the scenario up to the entry at t
ScenarioEntry(t) ==
  /\ \A k \in 1..(t - 1) :
       /\ ZGt(call_log[k].zscore_last, RatNeg(zscore_high))
       /\ ZLt(call_log[k].zscore_last, zscore_high)
  /\ ZLe(call_log[t].zscore_last, RatNeg(zscore_high))

\* ... and those of ticks t+1..u-1 keep the position open
ScenarioHold(t, u) ==
  \A k \in (t + 1)..(u - 1) :
    /\ ZAbsGt(call_log[k].zscore_last, zscore_low)
    /\ ZLt(call_log[k].zscore_last, zscore_high)

C14_EntryThenExit ==
  RatLt(zscore_low, zscore_high) =>
    \A t \in 1..Len(call_log) :
      ScenarioEntry(t) =>
        /\ \A k \in 1..(t - 1) :
             /\ call_log[k].ret = NoPair
             /\ ~call_log[k].long_market /\ ~call_log[k].short_market
        /\ IsLongEntry(call_log[t].ret)
        /\ call_log[t].long_market /\ ~call_log[t].short_market
        /\ \A u \in (t + 1)..Len(call_log) :
             ScenarioHold(t, u) =>
               /\ \A k \in (t + 1)..(u - 1) :
                    /\ call_log[k].ret = NoPair
                    /\ call_log[k].long_market /\ ~call_log[k].short_market
               /\ ZAbsLe(call_log[u].zscore_last, zscore_low) =>
                    /\ IsExit(call_log[u].ret)
                    /\ ~call_log[u].long_market /\ ~call_log[u].short_market
                    /\ u = Len(call_log) =>
                         put_log = call_log[t].ret \o call_log[u].ret

\* the scenario ran whole, with a quiet tick before the entry and one
\* between the entry and the exit
C14_Witness ==
  /\ RatLt(zscore_low, zscore_high)
  /\ Len(call_log) = 4
  /\ ScenarioEntry(2) /\ ScenarioHold(2, 4)
  /\ ZAbsLe(call_log[4].zscore_last, zscore_low)
  /\ Flat
  /\ Len(put_log) = 4 /\ Len(events) = 4

-----------------------------------------------------------------------------
(* C15: frame.  The flags are both False at construction; they change, and *)
(* a SignalEvent is put on the queue, only in a step where                 *)
(* calculate_signals handles a Market event on a full window; a call of    *)
(* calculate_signals with a SIGNAL, ORDER or FILL event and the driver's   *)
(* dispatch of a Signal, Order or Fill event leave both flags as they are  *)
(* and put no SignalEvent.                                                 *)

FlagsChange == long_market' # long_market \/ short_market' # short_market
SignalPut ==
  \/ CountType(events', "SIGNAL") > CountType(events, "SIGNAL")
  \/ CountType(put_log', "SIGNAL") > CountType(put_log, "SIGNAL")

C15_Frame ==
  /\ ~long_market /\ ~short_market
  /\ [][FlagsChange \/ SignalPut => MarketTick /\ ~WarmingUp]_vars
  /\ [][/\ Len(dispatched') > Len(dispatched)
         /\ Last(dispatched').type \in {"SIGNAL", "ORDER", "FILL"}
         => ~FlagsChange /\ ~SignalPut]_vars

\* a position was entered, and its signals, orders and fills were dispatched
\* after it without touching the flags
C15_Witness ==
  /\ pc = "done"
  /\ long_market \/ short_market
  /\ signals = 2 /\ orders = 2 /\ fills = 2
  /\ Last(dispatched).type = "FILL"

-----------------------------------------------------------------------------
(* C16: when 0 <= zscore_low < zscore_high, no call of                     *)
(* calculate_xy_signals has an entry guard and an exit guard both match,   *)
(* for any z-score and any flag values: a matching entry stands (its flag  *)
(* is set, its pair returned) and a matching exit stands (EXIT returned);  *)
(* whenever an entry and an exit guard do match in one call,               *)
(* zscore_low >= zscore_high.                                              *)

\* the guards of the code for a call with z from flags lm, sm: an entry
\* guard and an exit guard both match
EntryAndExitMatch(z, lm, sm) ==
  LET enterLong  == EnterLong(z, zscore_high, lm)
      exitLong   == ExitLong(z, zscore_low, lm \/ enterLong)
      enterShort == EnterShort(z, zscore_high, sm)
      exitShort  == ExitShort(z, zscore_low, sm \/ enterShort)
  IN (enterLong \/ enterShort) /\ (exitLong \/ exitShort)

OrderedThresholds == zscore_low.n >= 0 /\ RatLt(zscore_low, zscore_high)

C16_NoEntryExitOverlap ==
  /\ [](OrderedThresholds =>
          \A z \in ZScores, lm \in BOOLEAN, sm \in BOOLEAN :
            ~EntryAndExitMatch(z, lm, sm))
  /\ []((\E z \in ZScores, lm \in BOOLEAN, sm \in BOOLEAN :
            EntryAndExitMatch(z, lm, sm)) => ~RatLt(zscore_low, zscore_high))
  /\ [][XYCalled /\ OrderedThresholds =>
          LET z == zscore_last' IN
            /\ ~EntryAndExitMatch(z, long_market, short_market)
            /\ EnterLong(z, zscore_high, long_market) =>
                 long_market' /\ ret' = LongEntryPair'
            /\ EnterShort(z, zscore_high, short_market) =>
                 short_market' /\ ret' = ShortEntryPair'
            /\ \/ ExitLong(z, zscore_low, long_market)
               \/ ExitShort(z, zscore_low, short_market)
               => ret' = ExitPair /\ ~long_market' /\ ~short_market']_vars

\* a long entry that stood: z <= -zscore_high, the flag set, the entry pair
\* returned
C16_Witness ==
  /\ OrderedThresholds
  /\ ZLe(zscore_last, RatNeg(zscore_high))
  /\ long_market
  /\ ret = LongEntryPair

-----------------------------------------------------------------------------
(* C17: when 0 <= zscore_low < zscore_high, a call returns (and puts) an   *)
(* EXIT pair only if long_market or short_market was True when it started; *)
(* from FLAT no z-score sequence makes the strategy emit EXIT: the first   *)
(* pair it emits is an entry pair and every EXIT pair directly follows an  *)
(* entry pair.                                                             *)

SignalsOf(log) == SelectSeq(log, LAMBDA e : e.type = "SIGNAL")

C17_ExitOnlyFromPosition ==
  /\ [][XYCalled /\ OrderedThresholds /\ ret'[1] # None
          /\ ret'[1].signal_type = "EXIT" => long_market \/ short_market]_vars
  /\ [](OrderedThresholds =>
          LET sig == SignalsOf(put_log) IN
            \A k \in 1..Len(sig) :
              sig[k].symbol = "AAPL" /\ sig[k].signal_type = "EXIT" =>
                k > 2 /\ sig[k - 2].signal_type \in {"LONG", "SHORT"})
  /\ [](OrderedThresholds =>
          \A k \in 1..Len(call_log) :
            /\ (\A j \in 1..(k - 1) : call_log[j].ret = NoPair)
            /\ ZAbsLe(call_log[k].zscore_last, zscore_low)
            => call_log[k].ret = NoPair)

\* a flat strategy in the exit band emitted nothing; the EXIT pair came only
\* after the short entry
C17_Witness ==
  /\ OrderedThresholds
  /\ Len(call_log) >= 3
  /\ ZAbsLe(call_log[1].zscore_last, zscore_low)
  /\ call_log[1].ret = NoPair
  /\ IsShortEntry(call_log[2].ret)
  /\ IsExit(call_log[3].ret)
  /\ SignalsOf(put_log) = call_log[2].ret \o call_log[3].ret

-----------------------------------------------------------------------------
(* C18: no repeated entry.  When 0 <= zscore_low < zscore_high, in the     *)
(* sequence of signal pairs one strategy instance emits there is an EXIT   *)
(* pair between any two long-entry pairs (y LONG, x SHORT) and between any *)
(* two short-entry pairs (y SHORT, x LONG), however long the z-score stays *)
(* beyond the entry threshold.                                             *)

\* the y-leg signals of direction d at positions a < b of sig have an EXIT
\* y-leg signal between them
ExitBetween(sig, d) ==
  \A a, b \in 1..Len(sig) :
    /\ a < b
    /\ sig[a].symbol = "AAPL" /\ sig[a].signal_type = d
    /\ sig[b].symbol = "AAPL" /\ sig[b].signal_type = d
    => \E c \in (a + 1)..(b - 1) :
         /\ sig[c].symbol = "AAPL" /\ sig[c].signal_type = "EXIT"
         /\ sig[c + 1].symbol = "MSFT" /\ sig[c + 1].signal_type = "EXIT"

C18_NoRepeatedEntry ==
  OrderedThresholds =>
    /\ ExitBetween(SignalsOf(put_log), "LONG")
    /\ ExitBetween(SignalsOf(put_log), "SHORT")
    /\ \A k \in 2..Len(call_log) :
         /\ call_log[k - 1].long_market => ~IsLongEntry(call_log[k].ret)
         /\ call_log[k - 1].short_market => ~IsShortEntry(call_log[k].ret)

\* the z-score stayed at or below -zscore_high for two ticks: one long entry;
\* the second long entry came only after the EXIT pair
C18_Witness ==
  /\ OrderedThresholds
  /\ Len(call_log) = 4
  /\ ZLe(call_log[1].zscore_last, RatNeg(zscore_high))
  /\ ZLe(call_log[2].zscore_last, RatNeg(zscore_high))
  /\ IsLongEntry(call_log[1].ret)
  /\ call_log[2].ret = NoPair
  /\ IsExit(call_log[3].ret)
  /\ IsLongEntry(call_log[4].ret)
  /\ Len(SignalsOf(put_log)) = 6

-----------------------------------------------------------------------------
(* C19: every run of simulate_trading starts from fresh state: the flags   *)
(* are flat, the queue is empty, and the signals, orders and fills         *)
(* reported when the run has returned count the events of that run only.   *)

RunStarts == pc = "feed" /\ i = 0
RunReturned == pc = "done"

C19_FreshStatePerRun ==
  /\ RunStarts => ~long_market /\ ~short_market /\ events = <<>>
  /\ RunReturned =>
       /\ signals = CountType(dispatched, "SIGNAL")
       /\ orders = CountType(dispatched, "ORDER")
       /\ fills = CountType(dispatched, "FILL")

\* what does hold of every run: a new strategy (flat, not fitted), a new
\* portfolio, and a queue that the run before has drained
C19_FlagsAndQueueFresh ==
  RunStarts =>
    /\ ~long_market /\ ~short_market /\ hedge_ratio = NoHedgeRatio
    /\ events = <<>>
    /\ current_positions = [s \in {p0, p1} |-> 0]

\* a later run started with the counters of the runs before it
C19_CountersCarriedOver ==
  /\ strat_index = 2
  /\ RunStarts
  /\ signals = 2 /\ orders = 2 /\ fills = 2

====
